---- MODULE Spec2Model ----
(***************************************************************************)
(* Model of the /analyze handler of celebrityanalysis.py: the paginated    *)
(* scan of the celebritydataset table, the Euclidean distance of every     *)
(* record to the query encoding, the min-max normalisation of the          *)
(* distances into a 0..10 score and the top-num_results selection.         *)
(*                                                                         *)
(* One step of the model is the code that runs between two suspension      *)
(* points of the handler (image download and encoding, the count query,    *)
(* each page fetch followed by the scan of its records, and, once the      *)
(* loop is left, the normalisation, sort and slice that build the          *)
(* response).                                                              *)
(*                                                                         *)
(* Numbers: a distance is a float in the code; here it is a fixed-point    *)
(* number with DistanceScale units per 1.0, the square root rounded to the *)
(* nearest unit.  A score is the exact fraction num/den; a similarity is   *)
(* the score rounded half-to-even to hundredths (1000 is 10.00).           *)
(***************************************************************************)
EXTENDS Integers, Sequences, FiniteSets, TLC

VARIABLES
    corpus,          \* rows of table celebritydataset, in offset order
    count_row,       \* record_count of table celebritydataset_count, -1: no row
    num_results,     \* request.num_results
    image,           \* face encoding of the image behind request.image_url
    pc,              \* "start", "count", "loop", "done"
    user_encoding,   \* encodings[0], <<>> before it is set
    total_records,   \* -1 before the count query returned
    offset,
    candidates,
    min_distance,    \* -1 before the normalisation computed it
    max_distance,    \* -1 before the normalisation computed it
    top_results,     \* sorted_candidates[:num_results]
    response,        \* [status_code, detail, results]; status_code 0: none yet
    count_queries,   \* history: number of count queries issued
    fetches,         \* history: page fetches issued, [offset, limit, returned]
    scanned          \* history: names of the records the for loop visited

vars == << corpus, count_row, num_results, image, pc, user_encoding,
           total_records, offset, candidates, min_distance, max_distance,
           top_results, response, count_queries, fetches, scanned >>

----------------------------------------------------------------------------
(* Bounds of the model. *)

\* longest corpus of the ranking family of initial states
MaxRecords == 3
\* longest corpus of the pagination family of initial states
MaxPagingRecords == 5
\* page size, scaled down from the 1000 of the code
PageSize == 2
\* fixed-point units per 1.0 of distance
DistanceScale == 1000

----------------------------------------------------------------------------
(* Inputs. *)

\* encodings the face encoder may return for the request image
Queries == { <<0, 0>>, <<1, 0>> }

\* an embedding whose shape differs from the query's, with the smallest values
MismatchedEmbedding == <<0, 0, 0>>

\* embeddings stored in the rows of the ranking family
RankingEmbeddings ==
    { <<0, 0>>, <<1, 0>>, <<1, 1>>, <<2, 1>>, MismatchedEmbedding }

\* embeddings stored in the rows of the pagination family
PagingEmbeddings == { <<0, 0>>, <<1, 0>>, MismatchedEmbedding }

\* the table holding the embeddings es; a row's name is its offset
Table(es) == [i \in 1..Len(es) |-> [name |-> i - 1, embedding |-> es[i]]]

Tables(E, n) == { Table(es) : es \in UNION { [1..k -> E] : k \in 0..n } }

----------------------------------------------------------------------------
(* Arithmetic helpers. *)

Min(a, b) == IF a < b THEN a ELSE b
Max(a, b) == IF a > b THEN a ELSE b

RECURSIVE SqrtSearch(_, _, _)
\* the largest r in lo..hi with r * r <= x
SqrtSearch(x, lo, hi) ==
    IF lo >= hi THEN lo
    ELSE LET mid == (lo + hi + 1) \div 2
         IN  IF mid * mid <= x THEN SqrtSearch(x, mid, hi)
                               ELSE SqrtSearch(x, lo, mid - 1)

\* square root of x rounded to the nearest integer, for x <= hi * hi
Sqrt(x, hi) ==
    LET r == SqrtSearch(x, 0, hi)
    IN  IF x - r * r > r THEN r + 1 ELSE r

RECURSIVE SumSquares(_, _, _)
SumSquares(a, b, i) ==
    IF i > Len(a) THEN 0
    ELSE (a[i] - b[i]) * (a[i] - b[i]) + SumSquares(a, b, i + 1)

\* np.linalg.norm(a - b), in fixed point
euclidean_distance(a, b) ==
    LET sumsq == SumSquares(a, b, 1)
    IN  Sqrt(sumsq * DistanceScale * DistanceScale, sumsq * DistanceScale)

RECURSIVE SeqMin(_)
SeqMin(s) == IF Len(s) = 1 THEN s[1] ELSE Min(s[1], SeqMin(Tail(s)))

RECURSIVE SeqMax(_)
SeqMax(s) == IF Len(s) = 1 THEN s[1] ELSE Max(s[1], SeqMax(Tail(s)))

\* score a is smaller than score b
ScoreLess(a, b) == a.num * b.den < b.num * a.den

\* round(score, 2) in hundredths, ties to even
Round2(score) ==
    LET n == 100 * score.num
        q == n \div score.den
        r == n % score.den
    IN  IF 2 * r < score.den THEN q
        ELSE IF 2 * r > score.den THEN q + 1
        ELSE IF q % 2 = 0 THEN q ELSE q + 1

\* s[:k] of Python
Slice(s, k) ==
    IF k >= 0 THEN SubSeq(s, 1, Min(k, Len(s)))
    ELSE SubSeq(s, 1, Max(0, Len(s) + k))

----------------------------------------------------------------------------
(* The corpus accessor. *)

chunk_size == PageSize

\* variant: the range's upper end taken one row too far
RangeRows_inclusive(off, limit) ==
    SubSeq(corpus, off + 1, Min(off + limit + 1, Len(corpus)))

\* .range(offset, offset + limit - 1): the rows at these offsets that exist
RangeRows(off, limit) ==
    SubSeq(corpus, off + 1, Min(off + limit, Len(corpus)))

\* variant: the loop runs once more when the offset reaches the count
while_condition_inclusive(off, total) == off <= total

\* the condition of the while loop
while_condition(off, total) == off < total

\* variant: an empty page does not leave the loop
not_records_never(records) == FALSE

\* "if not records": the page is empty
not_records(records) == records = <<>>

----------------------------------------------------------------------------
(* The scan of one page. *)

\* variant: the shape of the embedding is not compared
ShapeMatches_ignored(record, encoding) == TRUE

ShapeMatches(record, encoding) == Len(record.embedding) = Len(encoding)

RECURSIVE ScanRecords(_, _)
\* the candidates the for loop appends for the records of one page
ScanRecords(records, encoding) ==
    IF records = <<>> THEN <<>>
    ELSE LET record == Head(records)
             rest == ScanRecords(Tail(records), encoding)
         IN  IF ~ShapeMatches(record, encoding) THEN rest
             ELSE << [name |-> record.name,
                      distance |-> euclidean_distance(encoding,
                                                      record.embedding)] >>
                  \o rest

----------------------------------------------------------------------------
(* Normalisation and selection. *)

Distances(cands) == [i \in 1..Len(cands) |-> cands[i].distance]

\* variant: the distance measured from the nearest candidate
compute_normalized_score_inverted(distance, mind, maxd) ==
    IF maxd = mind THEN [num |-> 10, den |-> 1]
    ELSE [num |-> 10 * (distance - mind), den |-> maxd - mind]

compute_normalized_score(distance, mind, maxd) ==
    IF maxd = mind THEN [num |-> 10, den |-> 1]
    ELSE [num |-> 10 * (maxd - distance), den |-> maxd - mind]

WithScores(cands, mind, maxd) ==
    [i \in 1..Len(cands) |->
        [name |-> cands[i].name,
         distance |-> cands[i].distance,
         score |-> compute_normalized_score(cands[i].distance, mind, maxd)]]

RECURSIVE InsertByScore(_, _)
\* c placed behind every element of the sorted s whose score is not smaller
InsertByScore(c, s) ==
    IF s = <<>> THEN << c >>
    ELSE IF ScoreLess(Head(s).score, c.score) THEN << c >> \o s
    ELSE << Head(s) >> \o InsertByScore(c, Tail(s))

RECURSIVE SortFrom(_, _, _)
SortFrom(s, i, acc) ==
    IF i > Len(s) THEN acc
    ELSE SortFrom(s, i + 1, InsertByScore(s[i], acc))

RECURSIVE InsertAscending(_, _)
InsertAscending(c, s) ==
    IF s = <<>> THEN << c >>
    ELSE IF ScoreLess(c.score, Head(s).score) THEN << c >> \o s
    ELSE << Head(s) >> \o InsertAscending(c, Tail(s))

RECURSIVE SortAscendingFrom(_, _, _)
SortAscendingFrom(s, i, acc) ==
    IF i > Len(s) THEN acc
    ELSE SortAscendingFrom(s, i + 1, InsertAscending(s[i], acc))

\* variant: the sort without reverse=True
sorted_candidates_ascending(s) == SortAscendingFrom(s, 1, <<>>)

\* sorted(s, key=score, reverse=True): stable, descending
sorted_candidates(s) == SortFrom(s, 1, <<>>)

CelebrityResult(index, candidate) ==
    [rank |-> index + 1,
     name |-> candidate.name,
     similarity |-> Round2(candidate.score)]

Results(top) == [i \in 1..Len(top) |-> CelebrityResult(i - 1, top[i])]

TopResults(cands, k) ==
    Slice(sorted_candidates(
              WithScores(cands, SeqMin(Distances(cands)),
                         SeqMax(Distances(cands)))), k)

----------------------------------------------------------------------------
(* Responses. *)

NoResponse == [status_code |-> 0, detail |-> "", results |-> <<>>]

HTTPException(code, text) ==
    [status_code |-> code, detail |-> text, results |-> <<>>]

AnalysisResponse(rs) == [status_code |-> 200, detail |-> "", results |-> rs]

\* variant: no check for an empty candidate list, an empty list is returned
RankAndRespond_empty_ok(cands) ==
    /\ pc' = "done"
    /\ IF cands = <<>>
       THEN /\ response' = AnalysisResponse(<<>>)
            /\ UNCHANGED << min_distance, max_distance, top_results >>
       ELSE /\ min_distance' = SeqMin(Distances(cands))
            /\ max_distance' = SeqMax(Distances(cands))
            /\ top_results' = TopResults(cands, num_results)
            /\ response' = AnalysisResponse(Results(top_results'))

\* the code behind the while loop: the empty check, the normalisation, the
\* sort and the slice, up to the return
RankAndRespond(cands) ==
    /\ pc' = "done"
    /\ IF cands = <<>>
       THEN /\ response' =
                  HTTPException(404, "No matching celebrity records found.")
            /\ UNCHANGED << min_distance, max_distance, top_results >>
       ELSE /\ min_distance' = SeqMin(Distances(cands))
            /\ max_distance' = SeqMax(Distances(cands))
            /\ top_results' = TopResults(cands, num_results)
            /\ response' = AnalysisResponse(Results(top_results'))

----------------------------------------------------------------------------
(* Initial states. *)

InitRequest ==
    /\ pc = "start"
    /\ image \in Queries
    /\ user_encoding = <<>>
    /\ total_records = -1
    /\ offset = 0
    /\ candidates = <<>>
    /\ min_distance = -1
    /\ max_distance = -1
    /\ top_results = <<>>
    /\ response = NoResponse
    /\ count_queries = 0
    /\ fetches = <<>>
    /\ scanned = <<>>

Init ==
    /\ InitRequest
    /\ \/ /\ corpus \in Tables(RankingEmbeddings, MaxRecords)
          /\ count_row \in -1..(MaxRecords + 1)
          /\ num_results \in -1..(MaxRecords + 1)
       \/ /\ corpus \in Tables(PagingEmbeddings, MaxPagingRecords)
          /\ count_row \in -1..(MaxPagingRecords + 1)
          /\ num_results \in {1, 2}
          /\ image = <<0, 0>>

----------------------------------------------------------------------------
(* Steps of analyze_face. *)

Unchanged_request == UNCHANGED << corpus, count_row, num_results, image >>

\* requests.get or raise_for_status raises: the handler answers 400
ImageDownloadFails ==
    /\ pc = "start"
    /\ pc' = "done"
    /\ response' = HTTPException(400, "Error fetching image from URL")
    /\ Unchanged_request
    /\ UNCHANGED << user_encoding, total_records, offset, candidates,
                    min_distance, max_distance, top_results, count_queries,
                    fetches, scanned >>

\* face_encodings finds no face in the image
NoFaceDetected ==
    /\ pc = "start"
    /\ pc' = "done"
    /\ response' = HTTPException(400, "No face detected in the image.")
    /\ Unchanged_request
    /\ UNCHANGED << user_encoding, total_records, offset, candidates,
                    min_distance, max_distance, top_results, count_queries,
                    fetches, scanned >>

\* the image is downloaded and encoded; the handler reaches the count query
EncodeImage ==
    /\ pc = "start"
    /\ pc' = "count"
    /\ user_encoding' = image
    /\ candidates' = <<>>
    /\ Unchanged_request
    /\ UNCHANGED << total_records, offset, min_distance, max_distance,
                    top_results, response, count_queries, fetches, scanned >>

\* variant: a failed count query is taken for a count of zero
get_total_record_count_fails_as_zero ==
    /\ pc = "count"
    /\ count_queries' = count_queries + 1
    /\ RankAndRespond(candidates)
    /\ Unchanged_request
    /\ UNCHANGED << user_encoding, total_records, offset, candidates, fetches,
                    scanned >>

\* the count query raises, or returns no row: the 404 raised inside the try
\* is caught by its except clause, both end as a 500
get_total_record_count_fails ==
    /\ pc = "count"
    /\ count_queries' = count_queries + 1
    /\ pc' = "done"
    /\ response' = HTTPException(500, "Error fetching record count")
    /\ Unchanged_request
    /\ UNCHANGED << user_encoding, total_records, offset, candidates,
                    min_distance, max_distance, top_results, fetches,
                    scanned >>

\* the count query returns record_count; with no record to fetch the loop is
\* skipped and the handler runs to its end
get_total_record_count ==
    /\ pc = "count"
    /\ count_row >= 0
    /\ count_queries' = count_queries + 1
    /\ total_records' = count_row
    /\ offset' = 0
    /\ IF while_condition(offset', total_records')
       THEN /\ pc' = "loop"
            /\ UNCHANGED << min_distance, max_distance, top_results,
                            response >>
       ELSE RankAndRespond(candidates)
    /\ Unchanged_request
    /\ UNCHANGED << user_encoding, candidates, fetches, scanned >>

\* variant: a failed page fetch is taken for an empty page
get_celebrity_chunk_fails_swallowed ==
    /\ pc = "loop"
    /\ while_condition(offset, total_records)
    /\ fetches' = Append(fetches, [offset |-> offset, limit |-> chunk_size,
                                   returned |-> -1])
    /\ RankAndRespond(candidates)
    /\ Unchanged_request
    /\ UNCHANGED << user_encoding, total_records, offset, candidates,
                    count_queries, scanned >>

\* a page fetch raises: the handler answers 500
get_celebrity_chunk_fails ==
    /\ pc = "loop"
    /\ while_condition(offset, total_records)
    /\ fetches' = Append(fetches, [offset |-> offset, limit |-> chunk_size,
                                   returned |-> -1])
    /\ pc' = "done"
    /\ response' = HTTPException(500, "Error fetching celebrity data")
    /\ Unchanged_request
    /\ UNCHANGED << user_encoding, total_records, offset, candidates,
                    min_distance, max_distance, top_results, count_queries,
                    scanned >>

\* a page fetch returns: an empty page leaves the loop, any other page is
\* scanned and the offset advanced; when the loop is left the handler runs to
\* its end
get_celebrity_chunk ==
    /\ pc = "loop"
    /\ while_condition(offset, total_records)
    /\ LET records == RangeRows(offset, chunk_size)
       IN  /\ fetches' = Append(fetches,
                                [offset |-> offset, limit |-> chunk_size,
                                 returned |-> Len(records)])
           /\ IF not_records(records)
              THEN /\ UNCHANGED << candidates, scanned, offset >>
                   /\ RankAndRespond(candidates)
              ELSE /\ candidates' =
                         candidates \o ScanRecords(records, user_encoding)
                   /\ scanned' =
                         scanned \o [i \in 1..Len(records) |-> records[i].name]
                   /\ offset' = offset + chunk_size
                   /\ IF while_condition(offset', total_records)
                      THEN /\ pc' = "loop"
                           /\ UNCHANGED << min_distance, max_distance,
                                           top_results, response >>
                      ELSE RankAndRespond(candidates')
    /\ Unchanged_request
    /\ UNCHANGED << user_encoding, total_records, count_queries >>

Next ==
    \/ ImageDownloadFails
    \/ NoFaceDetected
    \/ EncodeImage
    \/ get_total_record_count_fails
    \/ get_total_record_count
    \/ get_celebrity_chunk_fails
    \/ get_celebrity_chunk

Spec == Init /\ [][Next]_vars

----------------------------------------------------------------------------
(* Vocabulary of the properties. *)

\* ceil(t / p)
CeilDiv(t, p) == (t + p - 1) \div p

FetchFailed == \E i \in 1..Len(fetches) : fetches[i].returned = -1

\* the request left the while loop and ran the code behind it
LoopLeft ==
    /\ pc = "done"
    /\ count_queries = 1
    /\ total_records >= 0
    /\ ~FetchFailed

Succeeded == pc = "done" /\ response.status_code = 200

NoMatchError == HTTPException(404, "No matching celebrity records found.")

CountError == HTTPException(500, "Error fetching record count")

FetchError == HTTPException(500, "Error fetching celebrity data")

\* the row of the corpus a candidate or result was made from
RowOf(name) == corpus[name + 1]

DimensionMatches(row) == Len(row.embedding) = Len(user_encoding)

\* candidate i is strictly nearer to the query than every other candidate
StrictNearest(i) ==
    \A j \in 1..Len(candidates) :
        j # i => candidates[i].distance < candidates[j].distance

\* the scanned rows of matching dimension, as candidates, in scan order
ValidScannedCandidates ==
    LET rows == [i \in 1..Len(scanned) |-> RowOf(scanned[i])]
        valid == SelectSeq(rows, DimensionMatches)
    IN  [i \in 1..Len(valid) |->
            [name |-> valid[i].name,
             distance |-> euclidean_distance(user_encoding,
                                             valid[i].embedding)]]

----------------------------------------------------------------------------
(* Properties. *)

\* C1: a successful request with num_results >= 1 over n >= 1 valid
\* candidates returns exactly min(num_results, n) results, their ranks are
\* 1, 2, ..., k in list order and their scores (and so their rounded
\* similarities) do not increase from one rank to the next.
C1_CountRanksScores ==
    (LoopLeft /\ Len(candidates) >= 1 /\ num_results >= 1) =>
        LET results == response.results
            k == Min(num_results, Len(candidates))
        IN  /\ response.status_code = 200
            /\ Len(results) = k
            /\ Len(top_results) = k
            /\ \A i \in 1..k :
                  /\ results[i].rank = i
                  /\ results[i].name = top_results[i].name
                  /\ results[i].similarity = Round2(top_results[i].score)
            /\ \A i \in 1..(k - 1) :
                  /\ ~ScoreLess(top_results[i].score, top_results[i + 1].score)
                  /\ results[i].similarity >= results[i + 1].similarity

\* C1 witness: three candidates of three different distances, two returned
C1_Witness ==
    /\ Succeeded
    /\ num_results = 2
    /\ Len(candidates) = 3
    /\ Len(response.results) = 2
    /\ response.results[1].similarity > response.results[2].similarity
    /\ response.results[2].similarity > 0

C3_MismatchSkipped ==
    /\ \A i \in 1..Len(candidates) : DimensionMatches(RowOf(candidates[i].name))
    /\ \A i \in 1..Len(response.results) :
          DimensionMatches(RowOf(response.results[i].name))
    /\ LoopLeft =>
          /\ candidates = ValidScannedCandidates
          /\ (response.status_code = 200) <=>
                (\E i \in 1..Len(scanned) : DimensionMatches(RowOf(scanned[i])))
          /\ response.status_code = 200 =>
                /\ min_distance = SeqMin(Distances(ValidScannedCandidates))
                /\ max_distance = SeqMax(Distances(ValidScannedCandidates))
                /\ response.results =
                      Results(TopResults(ValidScannedCandidates, num_results))

\* C3 witness: a mismatched row is scanned between two matching rows, which
\* are both returned
C3_Witness ==
    /\ Succeeded
    /\ Len(scanned) = 3
    /\ ~DimensionMatches(RowOf(scanned[2]))
    /\ Len(candidates) = 2
    /\ Len(response.results) = 2

\* C4: when the table holds exactly the T rows the count reports, the fetches
\* of a request are issued at the offsets 0, P, 2P, ..., each with limit P and
\* returning the rows of its window, none at an offset >= T, and a request
\* that leaves the loop has issued exactly ceil(T / P) of them.
C4_FetchSchedule ==
    (count_row = Len(corpus)) =>
        /\ \A i \in 1..Len(fetches) :
              /\ fetches[i].offset = (i - 1) * chunk_size
              /\ fetches[i].offset < count_row
              /\ fetches[i].limit = chunk_size
              /\ fetches[i].returned \in
                    {-1, Min(chunk_size, count_row - fetches[i].offset)}
        /\ LoopLeft => Len(fetches) = CeilDiv(count_row, chunk_size)

\* C4 witness: two full pages and a shorter third one
C4_Witness ==
    /\ LoopLeft
    /\ count_row = Len(corpus)
    /\ Len(fetches) = 3
    /\ fetches[1].returned = chunk_size
    /\ fetches[2].returned = chunk_size
    /\ fetches[3].returned \in 1..(chunk_size - 1)

\* C5: a failed page fetch ends the request with the retrieval error: it is
\* the last fetch issued (no retry, no later page) and the response carries
\* no result, also when earlier pages gave candidates.
C5_FetchFailureFatal ==
    \A i \in 1..Len(fetches) :
        fetches[i].returned = -1 =>
            /\ i = Len(fetches)
            /\ pc = "done"
            /\ response = FetchError
            /\ top_results = <<>>

\* C5 witness: the second page fails after the first gave a candidate
C5_Witness ==
    /\ Len(fetches) = 2
    /\ fetches[2].returned = -1
    /\ candidates # <<>>
    /\ response = FetchError

\* C6: a request with num_results < 1 is rejected before any corpus work: no
\* count query, no page fetch, and never a result list.
C6_InvalidParameterRejected ==
    num_results < 1 =>
        /\ count_queries = 0
        /\ fetches = <<>>
        /\ response.status_code # 200

\* C7: a request that leaves the loop with no candidate fails with the
\* no-match error and no result list, and the minimum and maximum distances
\* are only ever computed over a list that is not empty.
C7_NoCandidatesNoMatch ==
    /\ (LoopLeft /\ candidates = <<>>) =>
          /\ response = NoMatchError
          /\ top_results = <<>>
          /\ min_distance = -1
          /\ max_distance = -1
    /\ (min_distance # -1 \/ max_distance # -1) => candidates # <<>>

\* C7 witness: every row fetched is of another dimension
C7_Witness ==
    /\ LoopLeft
    /\ Len(scanned) >= 2
    /\ candidates = <<>>
    /\ response = NoMatchError

\* C8 as stated: a count of zero, like a count that cannot be obtained, ends
\* the request at the count query with the retrieval failure, before any
\* page fetch.
C8_ZeroCountIsCountError ==
    (pc = "done" /\ count_queries = 1 /\ total_records <= 0) =>
        /\ response = CountError
        /\ fetches = <<>>

\* C8 amended: a count that cannot be obtained ends the request at the count
\* query with the retrieval failure, the query issued once and no page
\* fetched; a count of zero is no error of the count query: no page is
\* fetched either, and the request fails at the zero-candidates check with
\* the no-match error.
C8_CountFailureOrZero ==
    /\ count_queries <= 1
    /\ (pc = "done" /\ count_queries = 1) =>
          /\ total_records = -1 =>
                /\ response = CountError
                /\ fetches = <<>>
                /\ candidates = <<>>
          /\ count_row = -1 => total_records = -1
          /\ total_records = 0 =>
                /\ response = NoMatchError
                /\ fetches = <<>>

\* C8 witness: the count row says zero while the table holds rows
C8_Witness ==
    /\ pc = "done"
    /\ total_records = 0
    /\ Len(corpus) > 0
    /\ fetches = <<>>
    /\ response = NoMatchError

\* C9: a page fetch that returns no record is the last fetch of its request,
\* which goes on to rank the candidates of the earlier pages; and a request
\* never issues more than ceil(T / P) fetches.
C9_EmptyPageEndsPagination ==
    /\ total_records >= 0 =>
          Len(fetches) <= CeilDiv(total_records, chunk_size)
    /\ total_records < 0 => fetches = <<>>
    /\ \A i \in 1..Len(fetches) :
          fetches[i].returned = 0 =>
              /\ i = Len(fetches)
              /\ pc = "done"
              /\ IF candidates = <<>>
                 THEN response = NoMatchError
                 ELSE response =
                        AnalysisResponse(
                            Results(TopResults(candidates, num_results)))

\* C9 witness: an empty second page while another page would still lie below
\* the count, the candidates of the first page are ranked
C9_Witness ==
    /\ Succeeded
    /\ Len(fetches) = 2
    /\ fetches[2].returned = 0
    /\ fetches[2].offset + chunk_size < total_records
    /\ Len(response.results) >= 1

\* C10: a request that leaves the loop has scanned exactly the rows at the
\* offsets 0 .. min(N, ceil(T / P) * P) - 1, each once and in offset order,
\* N the size of the table and T the count; rows behind that are left out
\* without an error.
C10_ScanCoverage ==
    LoopLeft =>
        LET last == Min(Len(corpus),
                        CeilDiv(total_records, chunk_size) * chunk_size)
        IN  scanned = [i \in 1..last |-> i - 1]

\* C10 witness: a stale count leaves rows behind the last page out of a
\* ranking that succeeds
C10_Witness ==
    /\ Succeeded
    /\ total_records < Len(corpus)
    /\ CeilDiv(total_records, chunk_size) * chunk_size < Len(corpus)
    /\ Len(scanned) = CeilDiv(total_records, chunk_size) * chunk_size
    /\ Len(fetches) = 2

====
